---- MODULE Spec2Model ----
(***************************************************************************)
(* The MusicBrainz client of src/musicbrainz/client.rs: the request gate   *)
(* (RateLimiter behind an Arc<Mutex<..>>) and the retry loop of            *)
(* MusicBrainzClient::get, run by several concurrent tasks.                *)
(*                                                                         *)
(* Time is discrete, TicksPerSecond ticks to the second.  Every Instant is *)
(* held relative to the present: Now is 0, an Instant of the past is       *)
(* negative, a deadline is positive, and a tick moves each of them one     *)
(* tick back.  Instants further back than Horizon are no longer told       *)
(* apart, so the model covers runs of any length.  A task may be delayed   *)
(* for any time between two of its steps (the runtime is multi-threaded    *)
(* and pre-emptive), and a tokio::time::sleep(d) completes at its deadline *)
(* or any time later.                                                      *)
(***************************************************************************)
EXTENDS Integers, Sequences, FiniteSets, TLC

\* ---------------------------------------------------------------- bounds
NumTasks == 2
TicksPerSecond == 2
HorizonIntervals == 2
MaxConversions == 3

Tasks == 1..NumTasks
\* A gate is named after the task whose client constructed it; clones of a
\* client refer to the same gate (Arc::clone).
Gates == Tasks

\* ------------------------------------------------------- program constants
RATE_LIMIT_INTERVAL == 1 * TicksPerSecond
MAX_RETRIES == 3
INITIAL_BACKOFF == 1 * TicksPerSecond
\* limit.unwrap_or(25).min(100), offset.unwrap_or(0)
DEFAULT_LIMIT == 25
MAX_LIMIT == 100
DEFAULT_OFFSET == 0

\* ------------------------------------------------------------------ time
\* Instant::now()
Now == 0
Horizon == HorizonIntervals * RATE_LIMIT_INTERVAL
\* An Instant of the past, and a deadline, one tick later.
Pass(i, floor) == IF i > floor THEN i - 1 ELSE i

\* ------------------------------------------------------------- transport
\* What one transport call can come back with: a transport-layer failure, or
\* a status code with a body that does or does not decode into T.
Statuses == {200, 404, 500, 502, 503, 504}
Responses ==
    {[err |-> TRUE, status |-> 0, decodes |-> FALSE]}
    \cup {[err |-> FALSE, status |-> s, decodes |-> FALSE] : s \in Statuses}
    \cup {[err |-> FALSE, status |-> 200, decodes |-> TRUE]}
NoResponse == [err |-> FALSE, status |-> 0, decodes |-> FALSE]

\* StatusCode::is_success
is_success(status) == status >= 200 /\ status <= 299

NoTask == 0
NoAge == 0 - 1
NoOutcome == [kind |-> "None", status |-> 0]
\* Option::None of a limit or an offset
None == 0 - 1
NoParams == [path |-> "none", limit |-> None, offset |-> None]
NoQuery == [op |-> "none", limit |-> None, offset |-> None]
\* No String, no DownloadStatus
NoString == "<none>"
NoStatus == "<none>"
NoConv == [origin |-> NoString, str |-> NoString, status |-> NoStatus,
           holds |-> "nothing", steps |-> 0]

VARIABLES
    clientOf,       \* clientOf[t]: the constructed client whose clone (or
                    \*              which itself) task t calls get() on
    gateOf,         \* gateOf[t]: the gate behind the client task t uses
    last_request,   \* last_request[g]: RateLimiter.last_request of gate g
    holder,         \* holder[g]: the task holding gate g's Mutex, or NoTask
    pc,             \* pc[t]: where task t is in get()
    retries,        \* retries[t]: `retries` of get()
    backoff,        \* backoff[t]: `backoff` of get()
    wake,           \* wake[t]: deadline of the sleep task t is suspended in
    attempts,       \* attempts[t]: transport calls task t has started
    n503,           \* n503[t]: 503 answers task t has received
    slept,          \* slept[t]: sum of the backoff durations t has slept
    lastResp,       \* lastResp[t]: the last transport answer of task t
    outcome,        \* outcome[t]: the result get() returned, once done
    gateAge,        \* gateAge[t]: the time since the last acquire() returned
                    \*   on t's gate (Horizon on a fresh gate), taken when the
                    \*   acquire() t is in, or has just returned from, read
                    \*   last_request; NoAge otherwise
    waited,         \* waited[t]: whether that acquire() slept
    readers,        \* readers[g]: acquire() calls that have read the current
                    \*             value of last_request[g]
    acqCount,       \* acqCount[g]: acquire() calls that have returned on gate g
    acqLast,        \* acqLast[g]: when the last of them recorded its time
    acqSpan,        \* acqSpan[g]: time between the first and the last of
                    \*   them, up to SpanCap
    acquired,       \* acquired[t]: acquire() calls that have returned to task t
    sendLast,       \* sendLast[g]: when the last transport call started
    query,          \* query: the search call made: operation, limit, offset
    sent,           \* sent: the limit and offset put into the URL for it
    conv            \* conv: a stored download status under conversion: the
                    \*   value first given, the String and the DownloadStatus
                    \*   the conversions have produced, which of the two is
                    \*   the current value, and the conversions made

gateVars == <<last_request, holder>>
loopVars == <<retries, backoff, attempts, n503, slept, lastResp, outcome>>
readVars == <<gateAge, waited, readers>>
acqVars == <<acqCount, acqLast, acqSpan, acquired>>
clientVars == <<clientOf, gateOf>>
searchVars == <<query, sent>>
getVars == <<gateVars, pc, wake, loopVars, readVars, acqVars, sendLast>>
statusVars == <<conv>>
vars == <<clientVars, getVars, searchVars, statusVars>>

\* Ord::min
min(a, b) == IF a <= b THEN a ELSE b
\* The span of n acquire() calls is followed up to one interval above the
\* least span the gate allows them, (n - 1) * RATE_LIMIT_INTERVAL; longer
\* spans are no longer told apart.
SpanCap(n) == n * RATE_LIMIT_INTERVAL

\* ------------------------------------------------------------ RateLimiter
\* RateLimiter::new: last_request = Instant::now() - RATE_LIMIT_INTERVAL
NewLastRequest == Now - RATE_LIMIT_INTERVAL

\* self.last_request.elapsed()
Elapsed(g) == Now - last_request[g]

\* if elapsed < RATE_LIMIT_INTERVAL
NeedsWaitNever(elapsed) == FALSE
NeedsWaitOffByOne(elapsed) == elapsed <= RATE_LIMIT_INTERVAL
NeedsWait(elapsed) == elapsed < RATE_LIMIT_INTERVAL

\* let wait_time = RATE_LIMIT_INTERVAL - elapsed
WaitTimeSwapped(elapsed) == elapsed
WaitTimeDouble(elapsed) == 2 * (RATE_LIMIT_INTERVAL - elapsed)
WaitTime(elapsed) == RATE_LIMIT_INTERVAL - elapsed

\* self.last_request = Instant::now()
RecordedStampAdvance(g) == last_request[g] + RATE_LIMIT_INTERVAL
RecordedStamp(g) == Now

\* ------------------------------------------------------------- retry loop
\* if retries >= MAX_RETRIES { return Err(RateLimited) }
RetriesExhaustedNever(r) == FALSE
RetriesExhaustedOffByOne(r) == r > MAX_RETRIES
RetriesExhausted(r) == r >= MAX_RETRIES

\* backoff *= 2
NextBackoffConstant(b) == b
NextBackoffLinear(b) == b + INITIAL_BACKOFF
NextBackoff(b) == b * 2

\* The classification of one transport answer by get(): the outcome it
\* returns, or "Retry" when it sleeps and loops.
ClassifyRetry5xx(resp, r) ==
    IF resp.err THEN [kind |-> "Request", status |-> 0]
    ELSE IF is_success(resp.status) THEN
        IF resp.decodes THEN [kind |-> "Success", status |-> resp.status]
        ELSE [kind |-> "ParseError", status |-> resp.status]
    ELSE IF resp.status = 404 THEN [kind |-> "NotFound", status |-> 404]
    ELSE IF resp.status >= 500 THEN
        IF RetriesExhausted(r) THEN [kind |-> "RateLimited", status |-> 503]
        ELSE [kind |-> "Retry", status |-> 503]
    ELSE [kind |-> "ApiError", status |-> resp.status]
ClassifyRetry404(resp, r) ==
    IF resp.err THEN [kind |-> "Request", status |-> 0]
    ELSE IF is_success(resp.status) THEN
        IF resp.decodes THEN [kind |-> "Success", status |-> resp.status]
        ELSE [kind |-> "ParseError", status |-> resp.status]
    ELSE IF resp.status = 503 \/ resp.status = 404 THEN
        IF RetriesExhausted(r) THEN
            [kind |-> IF resp.status = 404 THEN "NotFound" ELSE "RateLimited",
             status |-> resp.status]
        ELSE [kind |-> "Retry", status |-> resp.status]
    ELSE [kind |-> "ApiError", status |-> resp.status]
ClassifyRetryParse(resp, r) ==
    IF resp.err THEN [kind |-> "Request", status |-> 0]
    ELSE IF is_success(resp.status) /\ resp.decodes
        THEN [kind |-> "Success", status |-> resp.status]
    ELSE IF resp.status = 404 THEN [kind |-> "NotFound", status |-> 404]
    ELSE IF resp.status = 503 \/ is_success(resp.status) THEN
        IF RetriesExhausted(r)
        THEN [kind |-> IF resp.status = 503 THEN "RateLimited" ELSE "ParseError",
              status |-> resp.status]
        ELSE [kind |-> "Retry", status |-> resp.status]
    ELSE [kind |-> "ApiError", status |-> resp.status]
ClassifyRetryTransport(resp, r) ==
    IF resp.err THEN
        IF RetriesExhausted(r) THEN [kind |-> "Request", status |-> 0]
        ELSE [kind |-> "Retry", status |-> 0]
    ELSE IF is_success(resp.status) THEN
        IF resp.decodes THEN [kind |-> "Success", status |-> resp.status]
        ELSE [kind |-> "ParseError", status |-> resp.status]
    ELSE IF resp.status = 404 THEN [kind |-> "NotFound", status |-> 404]
    ELSE IF resp.status = 503 THEN
        IF RetriesExhausted(r) THEN [kind |-> "RateLimited", status |-> 503]
        ELSE [kind |-> "Retry", status |-> 503]
    ELSE [kind |-> "ApiError", status |-> resp.status]
Classify(resp, r) ==
    IF resp.err THEN [kind |-> "Request", status |-> 0]
    ELSE IF is_success(resp.status) THEN
        IF resp.decodes THEN [kind |-> "Success", status |-> resp.status]
        ELSE [kind |-> "ParseError", status |-> resp.status]
    ELSE IF resp.status = 404 THEN [kind |-> "NotFound", status |-> 404]
    ELSE IF resp.status = 503 THEN
        IF RetriesExhausted(r) THEN [kind |-> "RateLimited", status |-> 503]
        ELSE [kind |-> "Retry", status |-> 503]
    ELSE [kind |-> "ApiError", status |-> resp.status]

\* ------------------------------------------------------------------- Init
\* Every client has just been constructed; all the tasks use clones of the
\* client of task 1, so they share its gate.
InitCommon ==
    /\ last_request = [g \in Gates |-> NewLastRequest]
    /\ holder = [g \in Gates |-> NoTask]
    /\ pc = [t \in Tasks |-> "idle"]
    /\ retries = [t \in Tasks |-> 0]
    /\ backoff = [t \in Tasks |-> 0]
    /\ wake = [t \in Tasks |-> Now]
    /\ attempts = [t \in Tasks |-> 0]
    /\ n503 = [t \in Tasks |-> 0]
    /\ slept = [t \in Tasks |-> 0]
    /\ lastResp = [t \in Tasks |-> NoResponse]
    /\ outcome = [t \in Tasks |-> NoOutcome]
    /\ gateAge = [t \in Tasks |-> NoAge]
    /\ waited = [t \in Tasks |-> FALSE]
    /\ readers = [g \in Gates |-> 0]
    /\ acqCount = [g \in Gates |-> 0]
    /\ acqLast = [g \in Gates |-> Now - Horizon]
    /\ acqSpan = [g \in Gates |-> 0]
    /\ acquired = [t \in Tasks |-> 0]
    /\ sendLast = [g \in Gates |-> Now - RATE_LIMIT_INTERVAL]

Init ==
    /\ InitCommon
    /\ clientOf = [t \in Tasks |-> 1]
    /\ gateOf = [t \in Tasks |-> 1]
    /\ query = NoQuery
    /\ sent = NoParams
    /\ conv = NoConv

\* ---------------------------------------------------------------- actions
\* One tick passes: every Instant moves one tick back.
Tick ==
    /\ last_request' = [g \in Gates |-> Pass(last_request[g], Now - Horizon)]
    /\ acqLast' = [g \in Gates |-> Pass(acqLast[g], Now - Horizon)]
    /\ sendLast' = [g \in Gates |-> Pass(sendLast[g], Now - RATE_LIMIT_INTERVAL)]
    /\ wake' = [t \in Tasks |-> Pass(wake[t], Now)]
    /\ UNCHANGED <<clientVars, searchVars, statusVars, holder, pc, loopVars, readVars, acqCount, acqSpan,
                   acquired>>

\* A task calls get(): retries = 0, backoff = INITIAL_BACKOFF, enter the loop.
StartRequest(t) ==
    /\ pc[t] = "idle"
    /\ retries' = [retries EXCEPT ![t] = 0]
    /\ backoff' = [backoff EXCEPT ![t] = INITIAL_BACKOFF]
    /\ pc' = [pc EXCEPT ![t] = "lock"]
    /\ UNCHANGED <<clientVars, searchVars, statusVars, gateVars, wake, attempts, n503, slept,
                   lastResp, outcome, readVars, acqVars, sendLast>>

\* self.rate_limiter.lock().await completes: the Mutex is free and t takes it.
LockNoMutex(t) ==
    /\ pc[t] = "lock"
    /\ holder' = [holder EXCEPT ![gateOf[t]] = t]
    /\ pc' = [pc EXCEPT ![t] = "acquire"]
    /\ UNCHANGED <<clientVars, searchVars, statusVars, last_request, wake, loopVars, readVars,
                   acqVars, sendLast>>
Lock(t) ==
    /\ pc[t] = "lock"
    /\ holder[gateOf[t]] = NoTask
    /\ holder' = [holder EXCEPT ![gateOf[t]] = t]
    /\ pc' = [pc EXCEPT ![t] = "acquire"]
    /\ UNCHANGED <<clientVars, searchVars, statusVars, last_request, wake, loopVars, readVars,
                   acqVars, sendLast>>

\* acquire(), first half: read the elapsed time; sleep for the rest of the
\* interval when it is short, go on to record the time otherwise.
AcquireCheck(t) ==
    /\ pc[t] = "acquire"
    /\ LET g == gateOf[t]
           elapsed == Elapsed(g)
       IN /\ gateAge' = [gateAge EXCEPT ![t] = Now - acqLast[g]]
          /\ readers' = [readers EXCEPT ![g] = readers[g] + 1]
          /\ IF NeedsWait(elapsed)
             THEN /\ wake' = [wake EXCEPT ![t] = Now + WaitTime(elapsed)]
                  /\ waited' = [waited EXCEPT ![t] = TRUE]
                  /\ pc' = [pc EXCEPT ![t] = "gate_sleep"]
             ELSE /\ waited' = [waited EXCEPT ![t] = FALSE]
                  /\ pc' = [pc EXCEPT ![t] = "record"]
                  /\ UNCHANGED wake
    /\ UNCHANGED <<clientVars, searchVars, statusVars, gateVars, loopVars, acqVars, sendLast>>

\* tokio::time::sleep(wait_time) completes, no earlier than its deadline.
GateWake(t) ==
    /\ pc[t] = "gate_sleep"
    /\ wake[t] <= Now
    /\ pc' = [pc EXCEPT ![t] = "record"]
    /\ UNCHANGED <<clientVars, searchVars, statusVars, gateVars, wake, loopVars, readVars, acqVars, sendLast>>

\* acquire(), second half: last_request = Instant::now(); acquire() returns
\* and the MutexGuard is dropped at the end of the block.
AcquireReturnKeepLock(t) ==
    /\ pc[t] = "record"
    /\ LET g == gateOf[t]
           gap == Now - acqLast[g]
       IN /\ last_request' = [last_request EXCEPT ![g] = RecordedStamp(g)]
          /\ readers' = [readers EXCEPT ![g] = 0]
          /\ acqCount' = [acqCount EXCEPT ![g] = acqCount[g] + 1]
          /\ acqLast' = [acqLast EXCEPT ![g] = Now]
          /\ acqSpan' = [acqSpan EXCEPT ![g] =
                            IF acqCount[g] = 0 THEN 0
                            ELSE min(acqSpan[g] + gap, SpanCap(acqCount[g] + 1))]
          /\ acquired' = [acquired EXCEPT ![t] = acquired[t] + 1]
    /\ pc' = [pc EXCEPT ![t] = "send"]
    /\ UNCHANGED <<clientVars, searchVars, statusVars, holder, wake, loopVars, gateAge,
                   waited, sendLast>>
AcquireReturn(t) ==
    /\ pc[t] = "record"
    /\ LET g == gateOf[t]
           gap == Now - acqLast[g]
       IN /\ last_request' = [last_request EXCEPT ![g] = RecordedStamp(g)]
          /\ holder' = [holder EXCEPT ![g] = NoTask]
          /\ readers' = [readers EXCEPT ![g] = 0]
          /\ acqCount' = [acqCount EXCEPT ![g] = acqCount[g] + 1]
          /\ acqLast' = [acqLast EXCEPT ![g] = Now]
          /\ acqSpan' = [acqSpan EXCEPT ![g] =
                            IF acqCount[g] = 0 THEN 0
                            ELSE min(acqSpan[g] + gap, SpanCap(acqCount[g] + 1))]
          /\ acquired' = [acquired EXCEPT ![t] = acquired[t] + 1]
    /\ pc' = [pc EXCEPT ![t] = "send"]
    /\ UNCHANGED <<clientVars, searchVars, statusVars, wake, loopVars, gateAge, waited, sendLast>>

\* self.client.get(url).send() starts.
Send(t) ==
    /\ pc[t] = "send"
    /\ attempts' = [attempts EXCEPT ![t] = attempts[t] + 1]
    /\ sendLast' = [sendLast EXCEPT ![gateOf[t]] = Now]
    /\ gateAge' = [gateAge EXCEPT ![t] = NoAge]
    /\ waited' = [waited EXCEPT ![t] = FALSE]
    /\ pc' = [pc EXCEPT ![t] = "inflight"]
    /\ UNCHANGED <<clientVars, searchVars, statusVars, gateVars, wake, retries, backoff, n503, slept,
                   lastResp, outcome, readers, acqVars>>

\* The transport call completes with resp, and get() classifies it: it
\* returns, or counts a retry and starts the backoff sleep.
Respond(t, resp) ==
    /\ pc[t] = "inflight"
    /\ lastResp' = [lastResp EXCEPT ![t] = resp]
    /\ n503' = [n503 EXCEPT ![t] =
                   IF ~resp.err /\ resp.status = 503 THEN n503[t] + 1 ELSE n503[t]]
    /\ LET c == Classify(resp, retries[t])
       IN IF c.kind = "Retry"
          THEN /\ retries' = [retries EXCEPT ![t] = retries[t] + 1]
               /\ wake' = [wake EXCEPT ![t] = Now + backoff[t]]
               /\ slept' = [slept EXCEPT ![t] = slept[t] + backoff[t]]
               /\ pc' = [pc EXCEPT ![t] = "backoff_sleep"]
               /\ UNCHANGED outcome
          ELSE /\ outcome' = [outcome EXCEPT ![t] = c]
               /\ pc' = [pc EXCEPT ![t] = "done"]
               /\ UNCHANGED <<retries, wake, slept>>
    /\ UNCHANGED <<clientVars, searchVars, statusVars, gateVars, backoff, attempts, readVars,
                   acqVars, sendLast>>

\* tokio::time::sleep(backoff) completes; backoff *= 2; continue.
BackoffWakeSkipGate(t) ==
    /\ pc[t] = "backoff_sleep"
    /\ wake[t] <= Now
    /\ backoff' = [backoff EXCEPT ![t] = NextBackoff(backoff[t])]
    /\ pc' = [pc EXCEPT ![t] = "send"]
    /\ UNCHANGED <<clientVars, searchVars, statusVars, gateVars, wake, retries, attempts,
                   n503, slept, lastResp, outcome, readVars, acqVars, sendLast>>
BackoffWake(t) ==
    /\ pc[t] = "backoff_sleep"
    /\ wake[t] <= Now
    /\ backoff' = [backoff EXCEPT ![t] = NextBackoff(backoff[t])]
    /\ pc' = [pc EXCEPT ![t] = "lock"]
    /\ UNCHANGED <<clientVars, searchVars, statusVars, gateVars, wake, retries, attempts, n503, slept,
                   lastResp, outcome, readVars, acqVars, sendLast>>

Next ==
    \/ Tick
    \/ \E t \in Tasks : StartRequest(t)
    \/ \E t \in Tasks : Lock(t)
    \/ \E t \in Tasks : AcquireCheck(t)
    \/ \E t \in Tasks : GateWake(t)
    \/ \E t \in Tasks : AcquireReturn(t)
    \/ \E t \in Tasks : Send(t)
    \/ \E t \in Tasks, resp \in Responses : Respond(t, resp)
    \/ \E t \in Tasks : BackoffWake(t)

Spec == Init /\ [][Next]_vars

\* ------------------------------------------------ clients and their clones
\* with_user_agent, with_base_url: the constructed client c owns a new gate,
\* Arc::new(Mutex::new(RateLimiter::new())).
ClientGate(c) == c
\* #[derive(Clone)]: the rate_limiter of the clone task t uses is Arc::clone
\* of the original's, the same gate g.
CloneGateDeep(t, g) == t
CloneGate(t, g) == g
\* The gate behind the handle of task t, which is client c or a clone of it.
HandleGate(t, c) ==
    IF t = c THEN ClientGate(c) ELSE CloneGate(t, ClientGate(c))
\* Who uses whose client: a task constructs its own client or uses a clone
\* of the client an earlier task constructed.
ClientChoices ==
    {f \in [Tasks -> Tasks] : \A t \in Tasks : f[t] <= t /\ f[f[t]] = f[t]}
InitClients ==
    /\ InitCommon
    /\ clientOf \in ClientChoices
    /\ gateOf = [t \in Tasks |-> HandleGate(t, clientOf[t])]
    /\ query = NoQuery
    /\ sent = NoParams
    /\ conv = NoConv
SpecClients == InitClients /\ [][Next]_vars

\* ------------------------------------------------------------ cancellation
\* The caller drops the future of get() while it is suspended at an .await:
\* in lock().await, in the sleep of acquire(), in send().await or in the
\* backoff sleep.  Dropping it drops the MutexGuard it holds (only the sleep
\* of acquire() holds one) and its timer; no other statement of get() runs.
CancelLeak(t) ==
    /\ pc[t] \in {"lock", "gate_sleep", "inflight", "backoff_sleep"}
    /\ wake' = [wake EXCEPT ![t] = Now]
    /\ pc' = [pc EXCEPT ![t] = "cancelled"]
    /\ UNCHANGED <<clientVars, searchVars, statusVars, gateVars, loopVars, readVars,
                   acqVars, sendLast>>
Cancel(t) ==
    /\ pc[t] \in {"lock", "gate_sleep", "inflight", "backoff_sleep"}
    /\ LET g == gateOf[t]
       IN /\ holder' = [holder EXCEPT ![g] =
                           IF holder[g] = t THEN NoTask ELSE holder[g]]
          /\ readers' = [readers EXCEPT ![g] =
                            IF holder[g] = t THEN 0 ELSE readers[g]]
    /\ wake' = [wake EXCEPT ![t] = Now]
    /\ pc' = [pc EXCEPT ![t] = "cancelled"]
    /\ UNCHANGED <<clientVars, searchVars, statusVars, last_request, loopVars, gateAge,
                   waited, acqVars, sendLast>>
NextCancel ==
    \/ Next
    \/ \E t \in Tasks : Cancel(t)
SpecCancel == Init /\ [][NextCancel]_vars

\* ---------------------------------------------------------------- searches
\* Option<u32> limits and offsets a caller may pass.
Limits == {None, 0, 1, 24, 25, 26, 99, 100, 101, 500}
Offsets == {None, 0, 1, 50}
SearchOps == {"search_recordings", "search_artists", "search_releases"}
Queries == [op : SearchOps, limit : Limits, offset : Offsets]
\* Option::unwrap_or
unwrap_or(x, d) == IF x = None THEN d ELSE x
\* let limit = limit.unwrap_or(25).min(100);
SearchLimitNoClamp(limit) == unwrap_or(limit, DEFAULT_LIMIT)
SearchLimit(limit) == min(unwrap_or(limit, DEFAULT_LIMIT), MAX_LIMIT)
\* let offset = offset.unwrap_or(0);
SearchOffsetKeepNone(offset) == offset
SearchOffset(offset) == unwrap_or(offset, DEFAULT_OFFSET)
\* A search builds its URL from the path, the clamped limit and the offset,
\* and hands it to get(), which task 1 then runs.
Search(op, path) ==
    /\ query.op = op
    /\ sent = NoParams
    /\ pc[1] = "idle"
    /\ sent' = [path |-> path,
                limit |-> SearchLimit(query.limit),
                offset |-> SearchOffset(query.offset)]
    /\ retries' = [retries EXCEPT ![1] = 0]
    /\ backoff' = [backoff EXCEPT ![1] = INITIAL_BACKOFF]
    /\ pc' = [pc EXCEPT ![1] = "lock"]
    /\ UNCHANGED <<clientVars, statusVars, query, gateVars, wake, attempts, n503, slept,
                   lastResp, outcome, readVars, acqVars, sendLast>>
search_recordings == Search("search_recordings", "recording")
search_artists == Search("search_artists", "artist")
search_releases == Search("search_releases", "release")
InitSearch ==
    /\ InitCommon
    /\ clientOf = [t \in Tasks |-> 1]
    /\ gateOf = [t \in Tasks |-> 1]
    /\ query \in Queries
    /\ sent = NoParams
    /\ conv = NoConv
NextSearch ==
    \/ search_recordings
    \/ search_artists
    \/ search_releases
SpecSearch == InitSearch /\ [][NextSearch]_vars

\* -------------------------------------------------------- download status
\* enum DownloadStatus
DownloadStatus == {"DownloadStatus::Pending", "DownloadStatus::Downloading",
                   "DownloadStatus::Processing", "DownloadStatus::Completed",
                   "DownloadStatus::Failed"}
\* Status strings a row may hold: the five the program writes, and others
\* (other case, padding, the empty string, other words).
StoredStrings ==
    {"pending", "downloading", "processing", "completed", "failed",
     "", "Pending", "PENDING", "Downloading", "Processing", "Completed",
     "COMPLETED", "Failed", "FAILED", " pending", "pending ", "failed ",
     "complete", "done", "fail", "error", "cancelled", "queued", "running",
     "download", "process", "unknown", "null", "0", "FAIL"}
\* impl From<String> for DownloadStatus
DownloadStatus_from_UnknownFailed(s) ==
    CASE s = "pending" -> "DownloadStatus::Pending"
      [] s = "downloading" -> "DownloadStatus::Downloading"
      [] s = "processing" -> "DownloadStatus::Processing"
      [] s = "completed" -> "DownloadStatus::Completed"
      [] OTHER -> "DownloadStatus::Failed"
DownloadStatus_from(s) ==
    CASE s = "pending" -> "DownloadStatus::Pending"
      [] s = "downloading" -> "DownloadStatus::Downloading"
      [] s = "processing" -> "DownloadStatus::Processing"
      [] s = "completed" -> "DownloadStatus::Completed"
      [] s = "failed" -> "DownloadStatus::Failed"
      [] OTHER -> "DownloadStatus::Pending"
\* impl From<DownloadStatus> for String
String_from(status) ==
    CASE status = "DownloadStatus::Pending" -> "pending"
      [] status = "DownloadStatus::Downloading" -> "downloading"
      [] status = "DownloadStatus::Processing" -> "processing"
      [] status = "DownloadStatus::Completed" -> "completed"
      [] status = "DownloadStatus::Failed" -> "failed"
\* A conversion starts from a stored string or from a DownloadStatus.
InitStatus ==
    /\ InitCommon
    /\ clientOf = [t \in Tasks |-> 1]
    /\ gateOf = [t \in Tasks |-> 1]
    /\ query = NoQuery
    /\ sent = NoParams
    /\ conv \in {[origin |-> s, str |-> s, status |-> NoStatus,
                   holds |-> "String", steps |-> 0] : s \in StoredStrings}
            \cup {[origin |-> d, str |-> NoString, status |-> d,
                    holds |-> "DownloadStatus", steps |-> 0]
                      : d \in DownloadStatus}
\* DownloadStatus::from(s), s.into()
StringToStatus ==
    /\ conv.holds = "String"
    /\ conv.steps < MaxConversions
    /\ conv' = [conv EXCEPT !.status = DownloadStatus_from(conv.str),
                            !.holds = "DownloadStatus",
                            !.steps = conv.steps + 1]
    /\ UNCHANGED <<clientVars, getVars, searchVars>>
\* String::from(status), status.into()
StatusToString ==
    /\ conv.holds = "DownloadStatus"
    /\ conv.steps < MaxConversions
    /\ conv' = [conv EXCEPT !.str = String_from(conv.status),
                            !.holds = "String",
                            !.steps = conv.steps + 1]
    /\ UNCHANGED <<clientVars, getVars, searchVars>>
NextStatus ==
    \/ StringToStatus
    \/ StatusToString
SpecStatus == InitStatus /\ [][NextStatus]_vars

\* ---------------------------------------------------------------- fairness
\* The tokio Mutex is fair (FIFO), so a task waiting in lock().await gets the
\* lock; a task that is runnable runs; time passes; a transport call comes
\* back.  Nothing obliges a caller to start a request.
FairSpec ==
    /\ Spec
    /\ WF_vars(Tick)
    /\ \A t \in Tasks :
          /\ SF_vars(Lock(t))
          /\ WF_vars(AcquireCheck(t) \/ GateWake(t) \/ AcquireReturn(t))
          /\ WF_vars(Send(t) \/ BackoffWake(t))
          /\ WF_vars(\E resp \in Responses : Respond(t, resp))

PcValues == {"idle", "lock", "acquire", "gate_sleep", "record", "send",
             "inflight", "backoff_sleep", "done", "cancelled"}
TypeOK ==
    /\ \A t \in Tasks : pc[t] \in PcValues
    /\ \A g \in Gates : last_request[g] \in (Now - Horizon)..Now

\* ================================================================= claims
RECURSIVE Pow2(_)
Pow2(k) == IF k = 0 THEN 1 ELSE 2 * Pow2(k - 1)
\* 2^0 + 2^1 + ... + 2^(k-1)
RECURSIVE SumPow2(_)
SumPow2(k) == IF k = 0 THEN 0 ELSE SumPow2(k - 1) + Pow2(k - 1)

\* The gate was idle when t's acquire() read it / was not.
SawIdle(t) == gateAge[t] # NoAge /\ gateAge[t] >= RATE_LIMIT_INTERVAL
SawBusy(t) == gateAge[t] # NoAge /\ gateAge[t] < RATE_LIMIT_INTERVAL
\* The last answer t received is the status code s.
Answered(t, s) == ~lastResp[t].err /\ lastResp[t].status = s

\* C1: on one gate, a caller that is about to record its time and return
\* from acquire() does so at least RATE_LIMIT_INTERVAL after the time the
\* previous acquire() recorded, under every interleaving.
C1_AcquireSpacing ==
    \A t \in Tasks :
        (pc[t] = "record" /\ acqCount[gateOf[t]] >= 1)
            => Now - acqLast[gateOf[t]] >= RATE_LIMIT_INTERVAL
\* A second acquire() has just returned after waiting out the interval.
C1_Witness ==
    \E t \in Tasks :
        /\ pc[t] = "send" /\ waited[t]
        /\ acqCount[gateOf[t]] >= 2 /\ acqLast[gateOf[t]] = Now

\* C2: the starts of any two transport calls made through one client are
\* at least RATE_LIMIT_INTERVAL apart.
C2_TransportSpacing ==
    [][\A t \in Tasks :
          (pc[t] = "send" /\ pc'[t] = "inflight")
              => Now - sendLast[gateOf[t]] >= RATE_LIMIT_INTERVAL]_vars

\* C3: read-elapsed / wait / record is one critical section: at most one
\* caller per gate is between taking the lock and recording its time, it is
\* the holder of the lock, and no two acquire() calls read the same value
\* of last_request.
C3_CriticalSection ==
    \A g \in Gates :
        LET inside == {t \in Tasks : gateOf[t] = g
                          /\ pc[t] \in {"acquire", "gate_sleep", "record"}}
        IN /\ Cardinality(inside) <= 1
           /\ \A t \in inside : holder[g] = t
           /\ inside = {} => holder[g] = NoTask
           /\ readers[g] <= 1
\* One caller sleeps inside the gate while another waits for the lock.
C3_Witness ==
    \E t, u \in Tasks :
        /\ t # u /\ gateOf[t] = gateOf[u]
        /\ pc[t] = "gate_sleep" /\ holder[gateOf[t]] = t
        /\ readers[gateOf[t]] = 1
        /\ pc[u] = "lock"

\* C4: after N acquire() calls have returned on one gate, the time between
\* the first and the N-th is at least (N-1) * RATE_LIMIT_INTERVAL.  (acqSpan
\* counts no gap for more than Horizon and is held at SpanCap, so it is at
\* most the true span.)
C4_AcquireSpan ==
    \A g \in Gates :
        acqCount[g] >= 1 => acqSpan[g] >= (acqCount[g] - 1) * RATE_LIMIT_INTERVAL
\* Every task has acquired the gate twice, back to back.
C4_Witness ==
    /\ acqCount[1] >= 2 * NumTasks
    /\ acqSpan[1] = (acqCount[1] - 1) * RATE_LIMIT_INTERVAL

\* C5: an acquire() that finds the gate idle (fresh, or last acquired at
\* least RATE_LIMIT_INTERVAL ago) does not sleep: it goes straight on to
\* record its time and return.
C5_IdleGateNoWait ==
    \A t \in Tasks :
        SawIdle(t) => ~waited[t] /\ pc[t] \in {"record", "send"}
\* An acquire() on a used gate that had been idle has returned unslept.
C5_Witness ==
    \E t \in Tasks :
        /\ SawIdle(t) /\ pc[t] = "send" /\ ~waited[t]
        /\ acqCount[gateOf[t]] >= 2

\* C6: no burst credit: an acquire() that reads the gate less than
\* RATE_LIMIT_INTERVAL after the last acquire() returned always sleeps, with
\* a deadline no earlier than RATE_LIMIT_INTERVAL after that return, however
\* long the gate had been idle before.
C6_NoBurstCredit ==
    \A t \in Tasks :
        SawBusy(t) =>
            /\ waited[t]
            /\ pc[t] = "gate_sleep" =>
                   wake[t] >= acqLast[gateOf[t]] + RATE_LIMIT_INTERVAL
\* After an idle time of Horizon one caller has returned unslept, and the
\* next one sleeps.
C6_Witness ==
    \E t, u \in Tasks :
        /\ t # u /\ gateOf[t] = gateOf[u]
        /\ pc[u] = "send" /\ gateAge[u] = Horizon /\ ~waited[u]
        /\ acqCount[gateOf[u]] >= 2
        /\ pc[t] = "gate_sleep" /\ SawBusy(t)

\* C7: a request whose every answer is 503 ends RateLimited with exactly
\* MAX_RETRIES retries, MAX_RETRIES + 1 transport calls, and never more.
C7_RateLimitedAfterMaxRetries ==
    \A t \in Tasks :
        /\ attempts[t] <= MAX_RETRIES + 1
        /\ n503[t] <= MAX_RETRIES + 1
        /\ n503[t] = MAX_RETRIES + 1 =>
               pc[t] = "done" /\ outcome[t].kind = "RateLimited"
        /\ (pc[t] = "done" /\ Answered(t, 503)) => outcome[t].kind = "RateLimited"
        /\ outcome[t].kind = "RateLimited" =>
               /\ attempts[t] = MAX_RETRIES + 1
               /\ n503[t] = MAX_RETRIES + 1
               /\ retries[t] = MAX_RETRIES
C7_Witness ==
    \E t \in Tasks : pc[t] = "done" /\ outcome[t].kind = "RateLimited"

\* C8: K < MAX_RETRIES answers of 503 and then a decodable 200: the request
\* returns Success after K + 1 transport calls, having slept
\* INITIAL_BACKOFF * (2^0 + ... + 2^(K-1)) in backoff.
C8_SuccessAfterRetries ==
    \A t \in Tasks :
        (pc[t] = "done" /\ Answered(t, 200) /\ lastResp[t].decodes
            /\ n503[t] < MAX_RETRIES)
        => /\ outcome[t].kind = "Success"
           /\ attempts[t] = n503[t] + 1
           /\ slept[t] = INITIAL_BACKOFF * SumPow2(n503[t])
C8_Witness ==
    \E t \in Tasks :
        /\ outcome[t].kind = "Success" /\ n503[t] = MAX_RETRIES - 1
        /\ slept[t] = INITIAL_BACKOFF * 3

\* C9: an answer with a status that is neither 2xx, 404 nor 503 ends the
\* request at once with ApiError carrying that status: no retry is counted
\* and no backoff sleep is added, whatever the retry count.
C9_ApiErrorTerminal ==
    \A t \in Tasks :
        (lastResp[t] # NoResponse /\ ~lastResp[t].err
            /\ ~is_success(lastResp[t].status)
            /\ lastResp[t].status \notin {404, 503})
        => /\ pc[t] = "done"
           /\ outcome[t] = [kind |-> "ApiError", status |-> lastResp[t].status]
           /\ attempts[t] = n503[t] + 1
           /\ retries[t] = n503[t]
           /\ slept[t] = INITIAL_BACKOFF * SumPow2(n503[t])
\* A 500 after two retried 503s.
C9_Witness ==
    \E t \in Tasks :
        /\ outcome[t] = [kind |-> "ApiError", status |-> 500]
        /\ n503[t] = 2 /\ attempts[t] = 3

\* C10: a 404 ends the request at once with NotFound: after exactly one
\* transport call and no backoff sleep when it is the first answer, and with
\* no further call or sleep when it follows retried 503s.
C10_NotFoundTerminal ==
    \A t \in Tasks :
        Answered(t, 404)
        => /\ pc[t] = "done"
           /\ outcome[t].kind = "NotFound"
           /\ attempts[t] = n503[t] + 1
           /\ retries[t] = n503[t]
           /\ slept[t] = INITIAL_BACKOFF * SumPow2(n503[t])
           /\ n503[t] = 0 => (attempts[t] = 1 /\ slept[t] = 0)
C10_Witness ==
    \E t, u \in Tasks :
        /\ outcome[t].kind = "NotFound" /\ attempts[t] = 1 /\ slept[t] = 0
        /\ outcome[u].kind = "NotFound" /\ attempts[u] = 2

\* C11 as stated: a request whose transport answered with a 2xx that does
\* not decode fails with ParseError after exactly one transport attempt.  It
\* fails when that answer comes to a retried attempt, after one or more 503s.
C11_Original ==
    \A t \in Tasks :
        (lastResp[t] # NoResponse /\ ~lastResp[t].err
            /\ is_success(lastResp[t].status) /\ ~lastResp[t].decodes)
        => /\ outcome[t].kind = "ParseError"
           /\ attempts[t] = 1

\* C11: a 2xx answer whose body does not decode ends the request with
\* ParseError on the attempt that received it and is never retried: no retry
\* is counted and no backoff sleep is started for it.  That is after exactly
\* one attempt when it is the first answer, and after n + 1 attempts when n
\* answers of 503 came before it.
C11_ParseErrorTerminal ==
    \A t \in Tasks :
        (lastResp[t] # NoResponse /\ ~lastResp[t].err
            /\ is_success(lastResp[t].status) /\ ~lastResp[t].decodes)
        => /\ pc[t] = "done"
           /\ outcome[t].kind = "ParseError"
           /\ attempts[t] = n503[t] + 1
           /\ retries[t] = n503[t]
           /\ slept[t] = INITIAL_BACKOFF * SumPow2(n503[t])
           /\ n503[t] = 0 => (attempts[t] = 1 /\ slept[t] = 0)
\* One request ends with ParseError on its first attempt, another on a retry.
C11_Witness ==
    \E t, u \in Tasks :
        /\ outcome[t].kind = "ParseError" /\ attempts[t] = 1 /\ slept[t] = 0
        /\ outcome[u].kind = "ParseError" /\ attempts[u] = 2 /\ n503[u] = 1

\* C12: a transport-layer failure on any attempt ends the request with the
\* transport error after that attempt: no retry is counted and no backoff
\* sleep is started for it.
C12_TransportErrorTerminal ==
    \A t \in Tasks :
        lastResp[t].err
        => /\ pc[t] = "done"
           /\ outcome[t].kind = "Request"
           /\ attempts[t] = n503[t] + 1
           /\ retries[t] = n503[t]
           /\ slept[t] = INITIAL_BACKOFF * SumPow2(n503[t])
\* A transport failure on the first attempt, and one on a retried attempt.
C12_Witness ==
    \E t, u \in Tasks :
        /\ outcome[t].kind = "Request" /\ attempts[t] = 1 /\ slept[t] = 0
        /\ outcome[u].kind = "Request" /\ attempts[u] = 3 /\ n503[u] = 2

\* The outcomes get() can return.
OutcomeKinds == {"Success", "NotFound", "RateLimited", "ApiError", "Request",
                 "ParseError"}
InGate == {"acquire", "gate_sleep", "record"}

\* C13: every request that enters get() ends, given that its transport calls
\* and sleeps complete, with one outcome of the six, which is set when get()
\* returns and never changes; it makes at most MAX_RETRIES + 1 attempts, and
\* only a 503 answer is followed by a backoff sleep and a further attempt.
C13_OneOutcome ==
    /\ [](\A t \in Tasks :
            /\ pc[t] = "done" <=> outcome[t] # NoOutcome
            /\ pc[t] = "done" => outcome[t].kind \in OutcomeKinds
            /\ attempts[t] <= MAX_RETRIES + 1
            /\ attempts[t] <= n503[t] + 1
            /\ pc[t] = "backoff_sleep" => Answered(t, 503)
            /\ retries[t] <= n503[t])
    /\ [][\A t \in Tasks :
            outcome[t] # NoOutcome => outcome'[t] = outcome[t]]_vars
    /\ \A t \in Tasks : (pc[t] = "lock") ~> (pc[t] = "done")
\* One request has ended after MAX_RETRIES + 1 attempts, another after one.
C13_Witness ==
    \E t, u \in Tasks :
        /\ pc[t] = "done" /\ attempts[t] = MAX_RETRIES + 1
        /\ outcome[t].kind = "ApiError"
        /\ pc[u] = "done" /\ attempts[u] = 1 /\ outcome[u].kind = "NotFound"

\* C15: for each request the acquire() calls that have returned are as many
\* as the transport calls started, plus the one whose transport call is
\* about to start; a transport call that starts after r retries has slept
\* the r backoffs and passed the gate r + 1 times.
C15_AcquirePerAttempt ==
    \A t \in Tasks :
        /\ acquired[t] = attempts[t] + (IF pc[t] = "send" THEN 1 ELSE 0)
        /\ pc[t] = "send"
            => /\ acquired[t] = retries[t] + 1
               /\ slept[t] = INITIAL_BACKOFF * SumPow2(retries[t])
\* A retried attempt is about to start after sleeping its backoff and then
\* waiting in the gate as well.
C15_Witness ==
    \E t \in Tasks :
        /\ pc[t] = "send" /\ retries[t] >= 1 /\ waited[t]
        /\ acquired[t] = retries[t] + 1

\* C17: a task holds the gate lock only inside acquire(): never while its
\* transport call is in flight, while it sleeps in backoff, or after get()
\* has returned, so the lock is free for others at those times.
C17_LockOnlyInAcquire ==
    \A g \in Gates :
        holder[g] # NoTask
        => /\ pc[holder[g]] \in InGate
           /\ gateOf[holder[g]] = g
\* One task is inside the gate while the other's transport call is in
\* flight after a retry.
C17_Witness ==
    \E t, u \in Tasks :
        /\ pc[t] = "inflight" /\ retries[t] >= 1
        /\ holder[gateOf[t]] = u /\ pc[u] = "gate_sleep"

\* C18 as stated: throughout the retry loop 0 <= retries <= MAX_RETRIES and
\* backoff = INITIAL_BACKOFF * 2^retries.  It fails during every backoff
\* sleep: retries is incremented before the sleep, backoff doubled after it.
C18_Original ==
    \A t \in Tasks :
        pc[t] # "idle"
        => /\ 0 <= retries[t] /\ retries[t] <= MAX_RETRIES
           /\ backoff[t] = INITIAL_BACKOFF * Pow2(retries[t])

\* C18: at every point of get() from the loop's entry on, 0 <= retries <=
\* MAX_RETRIES and backoff = INITIAL_BACKOFF * 2^retries, except during a
\* backoff sleep, the retries-th, which lasts INITIAL_BACKOFF *
\* 2^(retries - 1), the value backoff has until the sleep is over; the
\* sleeps so far add up to INITIAL_BACKOFF * (2^retries - 1), and a request
\* that ends in RateLimited has had MAX_RETRIES + 1 answers of 503 and slept
\* INITIAL_BACKOFF * (2^MAX_RETRIES - 1).
C18_BackoffInvariant ==
    \A t \in Tasks :
        pc[t] # "idle"
        => /\ 0 <= retries[t] /\ retries[t] <= MAX_RETRIES
           /\ pc[t] # "backoff_sleep"
               => backoff[t] = INITIAL_BACKOFF * Pow2(retries[t])
           /\ pc[t] = "backoff_sleep"
               => /\ retries[t] >= 1
                  /\ backoff[t] = INITIAL_BACKOFF * Pow2(retries[t] - 1)
                  /\ wake[t] <= Now + backoff[t]
           /\ slept[t] = INITIAL_BACKOFF * (Pow2(retries[t]) - 1)
           /\ outcome[t].kind = "RateLimited"
               => /\ n503[t] = MAX_RETRIES + 1
                  /\ retries[t] = MAX_RETRIES
                  /\ slept[t] = INITIAL_BACKOFF * (Pow2(MAX_RETRIES) - 1)
\* One request is at the start of its last backoff sleep, another has ended
\* in RateLimited.
C18_Witness ==
    \E t, u \in Tasks :
        /\ pc[t] = "backoff_sleep" /\ retries[t] = MAX_RETRIES
        /\ wake[t] = Now + INITIAL_BACKOFF * Pow2(MAX_RETRIES - 1)
        /\ outcome[u].kind = "RateLimited"

\* C14: when a task is cancelled, in the gate's wait, in a backoff sleep or
\* at another .await, it holds no gate lock afterwards and last_request is
\* as it was; the lock is only ever held by a task that is inside acquire(),
\* so the others can take it, and each of their acquire() calls still
\* returns at least RATE_LIMIT_INTERVAL after the one before it.
C14_CancelReleases ==
    /\ [](\A t \in Tasks :
            pc[t] = "cancelled" => \A g \in Gates : holder[g] # t)
    /\ [](\A g \in Gates :
            holder[g] # NoTask => pc[holder[g]] \in InGate)
    /\ [](\A t \in Tasks :
            (pc[t] = "record" /\ acqCount[gateOf[t]] >= 1)
                => Now - acqLast[gateOf[t]] >= RATE_LIMIT_INTERVAL)
    /\ [][\A t \in Tasks :
            (pc[t] # "cancelled" /\ pc'[t] = "cancelled")
                => /\ last_request' = last_request
                   /\ holder'[gateOf[t]] # t]_vars
\* A task was cancelled while it slept in the gate holding the lock (it had
\* read last_request and not yet recorded); the other task has taken the
\* lock since and is about to record its time.
C14_Witness ==
    \E t, u \in Tasks :
        /\ pc[t] = "cancelled" /\ SawBusy(t) /\ acquired[t] = attempts[t]
        /\ holder[gateOf[t]] = u /\ pc[u] = "record"
        /\ last_request[gateOf[u]] <= Now - RATE_LIMIT_INTERVAL

\* C16: each of the three searches sends min(limit, 100) for a given limit
\* and 25 for none, and the given offset or 0 for none; limit = 500 is sent
\* as limit = 100.
C16_SearchParams ==
    sent # NoParams
    => /\ query.limit = None => sent.limit = 25
       /\ (query.limit # None /\ query.limit <= 100)
            => sent.limit = query.limit
       /\ (query.limit # None /\ query.limit > 100) => sent.limit = 100
       /\ query.limit = 500 => sent.limit = 100
       /\ query.offset = None => sent.offset = 0
       /\ query.offset # None => sent.offset = query.offset
       /\ sent.path = (CASE query.op = "search_recordings" -> "recording"
                         [] query.op = "search_artists" -> "artist"
                         [] query.op = "search_releases" -> "release")
\* search_recordings with limit = 500 and no offset has built its URL.
C16_Witness ==
    /\ query = [op |-> "search_recordings", limit |-> 500, offset |-> None]
    /\ sent = [path |-> "recording", limit |-> 100, offset |-> 0]

\* Tasks t and u call get() on the same constructed client or clones of it.
SameClient(t, u) == clientOf[t] = clientOf[u]
\* C19: a task about to return from acquire() does so at least
\* RATE_LIMIT_INTERVAL after the last acquire() that returned to any task
\* using the same client or a clone of it; tasks on separately constructed
\* clients use different gates, and a task that shares its client with no
\* one is never made to wait in the gate.
C19_ClonesShareGate ==
    \A t \in Tasks :
        /\ \A u \in Tasks :
              /\ (SameClient(t, u) /\ pc[t] = "record"
                     /\ acqCount[gateOf[u]] >= 1)
                  => Now - acqLast[gateOf[u]] >= RATE_LIMIT_INTERVAL
              /\ ~SameClient(t, u) => gateOf[t] # gateOf[u]
        /\ (\A u \in Tasks \ {t} : ~SameClient(t, u))
            => pc[t] # "gate_sleep" /\ ~waited[t]
\* A task using a clone has waited in the gate because of the acquire() of
\* the task using the original, and has returned one interval after it.
C19_Witness ==
    \E t, u \in Tasks :
        /\ t # u /\ SameClient(t, u) /\ clientOf[t] = u
        /\ pc[t] = "send" /\ waited[t] /\ acquired[t] = 1
        /\ acquired[u] = 1 /\ acqCount[gateOf[u]] = 2
        /\ acqSpan[gateOf[u]] = RATE_LIMIT_INTERVAL
\* Two tasks on separately constructed clients have both returned from
\* acquire() in the same tick.
C19_Independent ==
    \E t, u \in Tasks :
        /\ ~SameClient(t, u)
        /\ pc[t] = "send" /\ acqLast[gateOf[t]] = Now
        /\ pc[u] = "send" /\ acqLast[gateOf[u]] = Now

\* C20: a task sleeping in acquire() holds the lock and its sleep was asked
\* to last at most RATE_LIMIT_INTERVAL; with a fair lock and tasks that run,
\* every task that calls lock() and acquire() returns from acquire().
C20_AcquireReturns ==
    /\ [](\A t \in Tasks :
            pc[t] = "gate_sleep"
            => /\ holder[gateOf[t]] = t
               /\ wake[t] <= Now + RATE_LIMIT_INTERVAL)
    /\ \A t \in Tasks : (pc[t] = "lock") ~> (pc[t] = "send")
\* A task asked for the longest wait, a whole interval, and has returned
\* from acquire(); the next caller holds the lock.
C20_Witness ==
    \E t, u \in Tasks :
        /\ pc[t] = "send" /\ waited[t] /\ gateAge[t] = 0
        /\ holder[gateOf[t]] = u /\ pc[u] = "gate_sleep"
        /\ wake[u] = Now + RATE_LIMIT_INTERVAL

\* C21: a DownloadStatus just converted from a string is the variant of that
\* string when it is one of the five recognised ones and Pending for every
\* other string, always a variant; a DownloadStatus converted to its string
\* and back is the same variant (and the string written back for a stored
\* string is that string when recognised, "pending" otherwise).
C21_StatusConversion ==
    /\ (conv.holds = "DownloadStatus" /\ conv.steps >= 1)
        => /\ conv.status \in DownloadStatus
           /\ conv.str = "pending" => conv.status = "DownloadStatus::Pending"
           /\ conv.str = "downloading"
                => conv.status = "DownloadStatus::Downloading"
           /\ conv.str = "processing"
                => conv.status = "DownloadStatus::Processing"
           /\ conv.str = "completed"
                => conv.status = "DownloadStatus::Completed"
           /\ conv.str = "failed" => conv.status = "DownloadStatus::Failed"
           /\ conv.str \notin {"pending", "downloading", "processing",
                                "completed", "failed"}
                => conv.status = "DownloadStatus::Pending"
    /\ (conv.origin \in DownloadStatus /\ conv.holds = "DownloadStatus")
        => conv.status = conv.origin
    /\ (conv.origin \in StoredStrings /\ conv.steps >= 2)
        => conv.str = (IF conv.origin \in {"pending", "downloading",
                                           "processing", "completed", "failed"}
                       THEN conv.origin ELSE "pending")
\* DownloadStatus::Failed has been converted to "failed" and back.
C21_Witness ==
    /\ conv.origin = "DownloadStatus::Failed"
    /\ conv.steps = 2
    /\ conv.str = "failed"
    /\ conv.status = "DownloadStatus::Failed"
\* The unrecognised "COMPLETED" has become Pending, then "pending", then
\* Pending again.
C21_Fallback ==
    /\ conv.origin = "COMPLETED"
    /\ conv.steps = 3
    /\ conv.str = "pending"
    /\ conv.status = "DownloadStatus::Pending"
====
